---- MODULE Spec2Model ----
(***************************************************************************)
(* The Mines bot of src/main.py: the session registry user_games, the      *)
(* ledger behind db, and one action per update handler.                    *)
(*                                                                         *)
(* main() builds the Application with its defaults and registers every     *)
(* handler with its defaults, so updates are handled one at a time: a      *)
(* handler runs to its end, awaits included, before the next update is     *)
(* taken.  Each handler action below is therefore one whole handler; it    *)
(* leaves its answer in `last`, and NextUpdate takes the next update.      *)
(*                                                                         *)
(* Spec is the bot under a bounded number of updates; SpecDispatch is the   *)
(* application handing the updates of its queue to the handlers, with the  *)
(* awaits at which a handler is suspended; SpecSession is one session of   *)
(* every mine count, played from its first reveal to its end.              *)
(*                                                                         *)
(* game_logic.MinesGame, database.UserDatabase and config are imported by  *)
(* src/main.py and are not part of the sources at hand; their operators    *)
(* follow sections 3, 4.2, 4.3 and 6 of the specification.                 *)
(***************************************************************************)
EXTENDS Integers, FiniteSets, Sequences, TLC

(* ------------------------------ bounds --------------------------------- *)

\* Number of game updates (/mine, button clicks, /cashout) handled in one
\* behaviour.
MaxUpdates == 5
\* Number of other commands (/start, /daily, /weekly, /gift, /resetdata,
\* /setbalance) handled in one behaviour.
MaxCommands == 1

Users == {1, 2}
\* Bets offered to /mine: the rejected bet 0 and the smallest accepted one.
Bets == {0, 1}
\* Boards dealt: the cyclic blocks of bombs starting at these tiles.
BoardShifts == {0}
\* Amounts offered to /gift.
GiftAmounts == {0, 1}
\* Mine counts offered to /mine: the two ends of [3,24], the rejected neighbour
\* of each, and 23, the largest count that leaves two gems.
MineChoices == {2, 3, 23, 24, 25}
\* Coordinates offered to a reveal click: three tiles of the grid and two
\* pairs outside it.
ClickTiles == {<<0, 0>>, <<4, 3>>, <<4, 4>>, <<5, 0>>, <<0, -1>>}
\* Amounts offered to /setbalance.
SetAmounts == {-1, 0}

(* --------------------------- program constants ------------------------- *)

GridSize == 5
NumTiles == GridSize * GridSize
WelcomeBalance == 100
DailyAmount == 50
WeeklyAmount == 200
MinMines == 3
MaxMines == 24
MinCashoutGems == 2
\* The house-edge factor h = HouseNum / HouseDen of the payout model.
HouseNum == 97
HouseDen == 100
ADMINS == {1}

\* The ledger the bot starts on: both users known, user 1 with the balance
\* /start gave, user 2 down to the last Hiwa.
InitialBalance == [u \in Users |-> IF u = 1 THEN WelcomeBalance ELSE 1]

\* No session in the registry under a user id.
NoGame == [state |-> "None"]
\* No board on a user's screen: below every potential win.
NoView == 0 - 1

(* ------------------------------ the ledger ----------------------------- *)

has_sufficient_balance(bal, u, amount) == bal[u] >= amount

\* debit: fails, changing nothing, when it would make the balance negative.
deduct_balance(bal, u, amount) ==
    IF bal[u] >= amount THEN [bal EXCEPT ![u] = @ - amount] ELSE bal

add_balance(bal, u, amount) == [bal EXCEPT ![u] = @ + amount]

set_balance(bal, u, amount) == [bal EXCEPT ![u] = amount]

(* --------------------------- the payout model -------------------------- *)

RECURSIVE GCD(_, _)
GCD(a, b) == IF b = 0 THEN a ELSE GCD(b, a % b)

\* The fraction n / d in lowest terms.
Lowest(n, d) == <<n \div GCD(n, d), d \div GCD(n, d)>>

\* The product of two fractions in lowest terms, in lowest terms; the common
\* factors are taken out before multiplying, so no intermediate value is
\* larger than the result.
Times(f, g) ==
    LET a == Lowest(f[1], g[2])
        b == Lowest(g[1], f[2])
    IN  <<a[1] * b[1], b[2] * a[2]>>

\* The survival step of the (i+1)-th safe reveal turned upside down:
\* 1 / ((25 - mines - i) / (25 - i)).
RevealFactor_survival(mines, i) == Lowest(NumTiles - mines - i, NumTiles - i)

RevealFactor(mines, i) == Lowest(NumTiles - i, NumTiles - mines - i)

RECURSIVE multiplierAfter(_, _)
\* multiplier(k) = h / prod_{i<k} (25 - mines - i) / (25 - i), as the exact
\* fraction <<numerator, denominator>> in lowest terms; multiplier(0) = h.
multiplierAfter(mines, k) ==
    IF k = 0 THEN Lowest(HouseNum, HouseDen)
    ELSE Times(multiplierAfter(mines, k - 1), RevealFactor(mines, k - 1))

\* int(bet_amount * current_multiplier): truncation of a non-negative product.
Payout(bet, mult) == (bet * mult[1]) \div mult[2]

(* ------------------------------ the session ---------------------------- *)

\* The board with `mines` bombs in the cyclic block starting at tile `shift`.
BoardBombs(mines, shift) == {(shift + j) % NumTiles : j \in 0 .. (mines - 1)}

\* MinesGame(amount, mines) on the board `bombs`.
MinesGame(amount, mines, bombs) ==
    [state |-> "Active", bet_amount |-> amount, mines_count |-> mines,
     bombs |-> bombs, revealed |-> {}, gems_revealed |-> 0,
     current_multiplier |-> multiplierAfter(mines, 0),
     debited |-> 0, credits |-> 0, paid |-> 0]

InGrid(row, col) == row >= 0 /\ row < GridSize /\ col >= 0 /\ col < GridSize

TileAt(row, col) == row * GridSize + col

\* reveal_tile counting a revealed tile again.
RevealOutcome_recount(game, row, col) ==
    IF ~InGrid(row, col) THEN "InvalidMove"
    ELSE IF TileAt(row, col) \in game.bombs THEN "bomb"
    ELSE "safe"

\* game.reveal_tile(row, col): "InvalidMove" (a failure, not a return value),
\* "bomb" (returns False) or "safe" (returns True).
RevealOutcome(game, row, col) ==
    IF ~InGrid(row, col) \/ TileAt(row, col) \in game.revealed THEN "InvalidMove"
    ELSE IF TileAt(row, col) \in game.bombs THEN "bomb"
    ELSE "safe"

\* reveal_tile counting the gem and leaving the multiplier as it was.
reveal_tile_stale(game, row, col) ==
    LET out == RevealOutcome(game, row, col) IN
    IF out = "InvalidMove" THEN game
    ELSE IF out = "bomb" THEN [game EXCEPT !.revealed = @ \cup {TileAt(row, col)},
                                           !.state = "Lost"]
    ELSE [game EXCEPT !.revealed = @ \cup {TileAt(row, col)},
                      !.gems_revealed = @ + 1]

\* The session after game.reveal_tile(row, col).
reveal_tile(game, row, col) ==
    LET out == RevealOutcome(game, row, col) IN
    IF out = "InvalidMove" THEN game
    ELSE IF out = "bomb" THEN [game EXCEPT !.revealed = @ \cup {TileAt(row, col)},
                                           !.state = "Lost"]
    ELSE [game EXCEPT !.revealed = @ \cup {TileAt(row, col)},
                      !.gems_revealed = @ + 1,
                      !.current_multiplier =
                          multiplierAfter(game.mines_count, game.gems_revealed + 1)]

(* ------------------------------- the state ----------------------------- *)

VARIABLES
    registered,   \* the user ids the ledger knows (db.user_exists)
    balance,      \* the ledger: user id -> Hiwa (0 for an unknown id)
    last_daily,   \* user id -> whether a daily bonus was ever claimed
    last_weekly,  \* user id -> whether a weekly bonus was ever claimed
    user_games,   \* the registry: user id -> session, or NoGame
    shown,        \* user id -> potential win of the board on the user's screen
    last,         \* the update being answered: who, what, with what, the
                  \* answer, and the gems of the session the answer shows;
                  \* Idle between two updates
    served,       \* number of game updates handled
    commands,     \* number of other commands handled
    arrived,      \* the updates received so far, in their order of arrival
    update_queue, \* Application.update_queue: the updates not yet taken
    running,      \* the handlers in progress, each with its position
    accessed      \* the updates whose handler has read and changed its user's
                  \* session, in the order in which they did

\* No update is being answered.
Idle == [user |-> 0, op |-> "none", arg |-> <<>>, gems |-> 0, result |-> "none"]

\* The bot: the ledger, the registry, the screens and the update answered.
bot == <<registered, balance, last_daily, last_weekly, user_games, shown, last, served, commands>>

\* The application's dispatch of updates to handlers.
dispatch == <<arrived, update_queue, running, accessed>>

vars == <<bot, dispatch>>

\* No update has arrived.
NoUpdates ==
    /\ arrived = <<>>
    /\ update_queue = <<>>
    /\ running = {}
    /\ accessed = <<>>

Init ==
    /\ registered = Users
    /\ balance = InitialBalance
    /\ last_daily = [u \in Users |-> FALSE]
    /\ last_weekly = [u \in Users |-> FALSE]
    /\ user_games = [u \in Users |-> NoGame]
    /\ shown = [u \in Users |-> NoView]
    /\ last = Idle
    /\ served = 0
    /\ commands = 0
    /\ NoUpdates

\* One more game update is handled: by `u`, of kind `op`, answered `result`.
Reply(u, op, arg, game, result) ==
    /\ last = Idle
    /\ served < MaxUpdates
    /\ served' = served + 1
    /\ last' = [user |-> u, op |-> op, arg |-> arg,
                gems |-> IF game = NoGame THEN 0 ELSE game.gems_revealed,
                result |-> result]
    /\ UNCHANGED <<commands, dispatch>>

\* One more of the other commands is handled.
ReplyCommand(u, op, result) ==
    /\ last = Idle
    /\ commands < MaxCommands
    /\ commands' = commands + 1
    /\ last' = [user |-> u, op |-> op, arg |-> <<>>, gems |-> 0, result |-> result]
    /\ UNCHANGED <<served, dispatch>>

\* The handler has returned: the application takes the next update.
NextUpdate ==
    /\ last # Idle
    /\ last' = Idle
    /\ UNCHANGED <<registered, balance, last_daily, last_weekly, user_games, shown,
                   served, commands, dispatch>>

(* ------------------------------- /start -------------------------------- *)

Start(u) ==
    IF u \notin registered
    THEN /\ registered' = registered \cup {u}
         /\ balance' = set_balance(balance, u, WelcomeBalance)
         /\ ReplyCommand(u, "start", "Welcome")
         /\ UNCHANGED <<last_daily, last_weekly, user_games, shown>>
    ELSE /\ ReplyCommand(u, "start", "WelcomeBack")
         /\ UNCHANGED <<registered, balance, last_daily, last_weekly, user_games, shown>>

(* -------------------------------- /mine -------------------------------- *)

\* start_game without its `if user_id in user_games` check.
StartGameVerdict_no_active_check(games, bal, u, wellFormed, amount, mines) ==
    IF ~wellFormed THEN "Usage"
    ELSE IF amount < 1 THEN "InvalidConfiguration"
    ELSE IF mines < MinMines \/ mines > MaxMines THEN "InvalidConfiguration"
    ELSE IF ~has_sufficient_balance(bal, u, amount) THEN "InsufficientBalance"
    ELSE "Started"

\* start_game without its `if not db.has_sufficient_balance` check.
StartGameVerdict_no_balance_check(games, bal, u, wellFormed, amount, mines) ==
    IF games[u] # NoGame THEN "AlreadyActive"
    ELSE IF ~wellFormed THEN "Usage"
    ELSE IF amount < 1 THEN "InvalidConfiguration"
    ELSE IF mines < MinMines \/ mines > MaxMines THEN "InvalidConfiguration"
    ELSE "Started"

\* The answer of start_game to `/mine amount mines` (wellFormed: two
\* arguments, both integers), by its checks in their order.
StartGameVerdict(games, bal, u, wellFormed, amount, mines) ==
    IF games[u] # NoGame THEN "AlreadyActive"
    ELSE IF ~wellFormed THEN "Usage"
    ELSE IF amount < 1 THEN "InvalidConfiguration"
    ELSE IF mines < MinMines \/ mines > MaxMines THEN "InvalidConfiguration"
    ELSE IF ~has_sufficient_balance(bal, u, amount) THEN "InsufficientBalance"
    ELSE "Started"

\* send_game_board from a command: hasattr(update, 'callback_query') holds for
\* every Update, the callback query of a command update is None, and the
\* failed edit is logged: the screen keeps what it showed.
send_game_board(view, u, game) == view

\* The /mine messages offered: one that is not two integers, and every pair of
\* a bet and a mine count.
MineRequests ==
    {<<FALSE, 0, 0>>} \cup {<<TRUE, a, m>> : a \in Bets, m \in MineChoices}

\* start_game deducting the bet before it validates the mine count.
BalanceAfterStart_before_validation(bal, u, amount, verdict) ==
    IF verdict \in {"Started", "InvalidConfiguration"} /\ amount >= 1
    THEN deduct_balance(bal, u, amount)
    ELSE bal

\* The ledger after start_game: the bet is deducted once every check passed.
BalanceAfterStart(bal, u, amount, verdict) ==
    IF verdict = "Started" THEN deduct_balance(bal, u, amount) ELSE bal

StartGame(u) ==
    \E req \in MineRequests :
        LET amount == req[2]
            mines == req[3]
            verdict == StartGameVerdict(user_games, balance, u, req[1], amount, mines)
            debited == BalanceAfterStart(balance, u, amount, verdict)
        IN  /\ balance' = debited
            /\ IF verdict = "Started"
               THEN \E shift \in BoardShifts :
                        LET game == [MinesGame(amount, mines, BoardBombs(mines, shift))
                                         EXCEPT !.debited = balance[u] - debited[u]]
                        IN  /\ user_games' = [user_games EXCEPT ![u] = game]
                            /\ shown' = send_game_board(shown, u, game)
                            /\ Reply(u, "mine", <<>>, game, verdict)
               ELSE /\ Reply(u, "mine", <<>>, user_games[u], verdict)
                    /\ UNCHANGED <<user_games, shown>>
            /\ UNCHANGED <<registered, last_daily, last_weekly>>

(* --------------------------- ending a session -------------------------- *)

\* handle_game_over without its `del user_games[user_id]`.
handle_game_over_kept(games, u) == games

\* handle_game_over clearing the registry: user_games.clear() for the del.
handle_game_over_all(games, u) == [v \in DOMAIN games |-> NoGame]

\* handle_game_over: the registry without the user's session.
handle_game_over(games, u) == [games EXCEPT ![u] = NoGame]

\* The cash-out rule with the bound off by one.
CashOutAllowed_one_gem(game) == game.gems_revealed >= MinCashoutGems - 1

\* The cash-out rule left out.
CashOutAllowed_always(game) == TRUE

\* The cash-out rule of button_click and cashout_command.
CashOutAllowed(game) == game.gems_revealed >= MinCashoutGems

\* The win credited without the stake: int(bet * multiplier) - bet.
WinAmount_profit_only(game) ==
    Payout(game.bet_amount, game.current_multiplier) - game.bet_amount

\* win_amount = int(game.bet_amount * game.current_multiplier)
WinAmount(game) == Payout(game.bet_amount, game.current_multiplier)

\* The potential win update_game_board writes on the board.
PotentialWin(game) == Payout(game.bet_amount, game.current_multiplier)

\* The session after its win was credited.
Credited(game, amount) == [game EXCEPT !.credits = @ + 1, !.paid = @ + amount]

\* A cash-out request, from the button (edited: the answer replaces the
\* board) or from /cashout (the final message cannot be edited in: there is no
\* callback query, the board stays on the screen).
CashOut(u, op, edited) ==
    IF user_games[u] = NoGame
    THEN /\ Reply(u, op, <<>>, NoGame, "NoActiveGame")
         /\ shown' = IF edited THEN [shown EXCEPT ![u] = NoView] ELSE shown
         /\ UNCHANGED <<registered, balance, last_daily, last_weekly, user_games>>
    ELSE LET game == user_games[u] IN
         IF CashOutAllowed(game)
         THEN LET paid == Credited(game, WinAmount(game))
                  games == [user_games EXCEPT ![u] = paid]
              IN  /\ balance' = add_balance(balance, u, WinAmount(game))
                  /\ user_games' = handle_game_over(games, u)
                  /\ shown' = IF edited THEN [shown EXCEPT ![u] = NoView] ELSE shown
                  /\ Reply(u, op, <<>>, game, "Won")
                  /\ UNCHANGED <<registered, last_daily, last_weekly>>
         ELSE /\ Reply(u, op, <<>>, game, "CashOutTooEarly")
              /\ UNCHANGED <<registered, balance, last_daily, last_weekly, user_games, shown>>

CashoutCommand(u) == CashOut(u, "cashout", FALSE)

(* ------------------------------ the buttons ---------------------------- *)

\* button_click ending the game on every reveal that is not safe.
RevealVerdict_not_safe_is_lost(outcome) ==
    IF outcome = "safe" THEN "Safe" ELSE "Lost"

\* button_click with the two branches of `if game.reveal_tile(row, col)` swapped.
RevealVerdict_swapped(outcome) ==
    IF outcome = "safe" THEN "Lost"
    ELSE IF outcome = "bomb" THEN "Safe"
    ELSE "InvalidMove"

\* button_click doing nothing on a false return of game.reveal_tile.
RevealVerdict_bomb_ignored(outcome) ==
    IF outcome = "safe" THEN "Safe" ELSE "InvalidMove"

\* What button_click does with the outcome of game.reveal_tile: a true return
\* refreshes the board, a false one ends the game, a failure leaves the handler.
RevealVerdict(outcome) ==
    IF outcome = "safe" THEN "Safe"
    ELSE IF outcome = "bomb" THEN "Lost"
    ELSE "InvalidMove"

\* update_game_board: the board on the screen shows the session's potential win.
update_game_board(view, u, game) == [view EXCEPT ![u] = PotentialWin(game)]

\* A click on a button carrying reveal_<row>_<col>.
RevealClick(u, row, col) ==
    IF user_games[u] = NoGame
    THEN /\ Reply(u, "reveal", <<row, col>>, NoGame, "NoActiveGame")
         /\ shown' = [shown EXCEPT ![u] = NoView]
         /\ UNCHANGED <<registered, balance, last_daily, last_weekly, user_games>>
    ELSE LET game == user_games[u]
             verdict == RevealVerdict(RevealOutcome(game, row, col))
             after == reveal_tile(game, row, col)
             games == [user_games EXCEPT ![u] = after]
         IN  /\ Reply(u, "reveal", <<row, col>>, after, verdict)
             /\ IF verdict = "Safe"
                THEN /\ user_games' = games
                     /\ shown' = update_game_board(shown, u, after)
                ELSE IF verdict = "Lost"
                THEN /\ user_games' = handle_game_over(games, u)
                     /\ shown' = [shown EXCEPT ![u] = NoView]
                ELSE UNCHANGED <<user_games, shown>>
             /\ UNCHANGED <<registered, balance, last_daily, last_weekly>>

\* A click on the Play Again button, or on a button that carries ignore...:
\* both are buttons of a final message, so the text that may replace the
\* message clicked replaces no board.
OtherClick(u, data) ==
    /\ IF user_games[u] = NoGame
       THEN Reply(u, "other_click", <<>>, NoGame, "NoActiveGame")
       ELSE Reply(u, "other_click", <<>>, user_games[u],
                  IF data = "new_game" THEN "HowToStart" ELSE "Ignored")
    /\ UNCHANGED <<registered, balance, last_daily, last_weekly, user_games, shown>>

ButtonClick(u) ==
    \E data \in {<<"cashout">>, <<"new_game">>, <<"ignore">>}
                \cup {<<"reveal", t[1], t[2]>> : t \in ClickTiles} :
        IF data[1] = "cashout" THEN CashOut(u, "click_cashout", TRUE)
        ELSE IF data[1] = "reveal" THEN RevealClick(u, data[2], data[3])
        ELSE OtherClick(u, data[1])

(* ------------------------------ the bonuses ---------------------------- *)

\* /daily and /weekly of a user the ledger knows; `elapsed`: the cooldown
\* since the last claim is over.
DailyBonus(u) ==
    /\ u \in registered
    /\ \E elapsed \in BOOLEAN :
        IF last_daily[u] /\ ~elapsed
        THEN /\ ReplyCommand(u, "daily", "Cooldown")
             /\ UNCHANGED <<balance, last_daily>>
        ELSE /\ balance' = add_balance(balance, u, DailyAmount)
             /\ last_daily' = [last_daily EXCEPT ![u] = TRUE]
             /\ ReplyCommand(u, "daily", "Bonus")
    /\ UNCHANGED <<registered, last_weekly, user_games, shown>>

WeeklyBonus(u) ==
    /\ u \in registered
    /\ \E elapsed \in BOOLEAN :
        IF last_weekly[u] /\ ~elapsed
        THEN /\ ReplyCommand(u, "weekly", "Cooldown")
             /\ UNCHANGED <<balance, last_weekly>>
        ELSE /\ balance' = add_balance(balance, u, WeeklyAmount)
             /\ last_weekly' = [last_weekly EXCEPT ![u] = TRUE]
             /\ ReplyCommand(u, "weekly", "Bonus")
    /\ UNCHANGED <<registered, last_daily, user_games, shown>>

(* -------------------------------- /gift -------------------------------- *)

\* The answer of gift to `/gift @recipient amount`, by its checks in order.
GiftVerdict(known, bal, sender, wellFormed, recipient, amount) ==
    IF ~wellFormed THEN "Usage"
    ELSE IF amount < 1 THEN "InvalidAmount"
    ELSE IF recipient \notin known THEN "NotFound"
    ELSE IF sender = recipient THEN "Self"
    ELSE IF ~has_sufficient_balance(bal, sender, amount) THEN "InsufficientBalance"
    ELSE "Gifted"

Gift(u) ==
    \E wellFormed \in BOOLEAN, recipient \in Users, amount \in GiftAmounts :
        LET verdict == GiftVerdict(registered, balance, u, wellFormed, recipient, amount)
        IN  /\ ReplyCommand(u, "gift", verdict)
            /\ IF verdict = "Gifted"
               THEN balance' = add_balance(deduct_balance(balance, u, amount),
                                           recipient, amount)
               ELSE UNCHANGED balance
            /\ UNCHANGED <<registered, last_daily, last_weekly, user_games, shown>>

(* --------------------------- the admin commands ------------------------ *)

AdminResetData(u) ==
    IF u \notin ADMINS
    THEN /\ ReplyCommand(u, "resetdata", "AdminOnly")
         /\ UNCHANGED <<registered, balance, last_daily, last_weekly, user_games, shown>>
    ELSE /\ registered' = {}
         /\ balance' = [v \in Users |-> 0]
         /\ last_daily' = [v \in Users |-> FALSE]
         /\ last_weekly' = [v \in Users |-> FALSE]
         /\ user_games' = [v \in Users |-> NoGame]
         /\ ReplyCommand(u, "resetdata", "Reset")
         /\ UNCHANGED shown

\* admin_set_balance without its `if amount < 0` check.
SetBalanceVerdict_no_negative_check(known, u, wellFormed, target, amount) ==
    IF u \notin ADMINS THEN "AdminOnly"
    ELSE IF ~wellFormed THEN "Usage"
    ELSE IF target \notin known THEN "NotFound"
    ELSE "Set"

\* The answer of admin_set_balance to `/setbalance @target amount`.
SetBalanceVerdict(known, u, wellFormed, target, amount) ==
    IF u \notin ADMINS THEN "AdminOnly"
    ELSE IF ~wellFormed THEN "Usage"
    ELSE IF target \notin known THEN "NotFound"
    ELSE IF amount < 0 THEN "Negative"
    ELSE "Set"

AdminSetBalance(u) ==
    \E wellFormed \in BOOLEAN, target \in Users, amount \in SetAmounts :
        LET verdict == SetBalanceVerdict(registered, u, wellFormed, target, amount)
        IN  /\ ReplyCommand(u, "setbalance", verdict)
            /\ IF verdict = "Set"
               THEN balance' = set_balance(balance, target, amount)
               ELSE UNCHANGED balance
            /\ UNCHANGED <<registered, last_daily, last_weekly, user_games, shown>>

(* --------------------------- the specification ------------------------- *)

Next ==
    \/ NextUpdate
    \/ \E u \in Users :
        \/ Start(u)
        \/ StartGame(u)
        \/ ButtonClick(u)
        \/ CashoutCommand(u)
        \/ DailyBonus(u)
        \/ WeeklyBonus(u)
        \/ Gift(u)
        \/ AdminResetData(u)
        \/ AdminSetBalance(u)

Spec == Init /\ [][Next]_vars

(* --------------------------- the update dispatch ----------------------- *)

\* Number of updates that arrive in one behaviour of the dispatch.
MaxArrivals == 4

\* The updates that act on a session: a button click (reveal or cash out),
\* handled by button_click, and the /cashout command.
UpdateKinds == {"click", "cashout"}

\* An Application that handles its updates concurrently
\* (concurrent_updates(True)): an update is taken while handlers are running.
CanTake_concurrent(handlers) == TRUE

\* Application.builder().token(...).build(): concurrent_updates is off and
\* every handler blocks, so the next update is taken once no handler runs.
CanTake(handlers) == handlers = {}

\* The ids of the updates taken and handled to the end.
Finished ==
    {i \in 1 .. Len(arrived) :
        /\ \A k \in 1 .. Len(update_queue) : update_queue[k] # i
        /\ \A h \in running : h.id # i}

\* An update of user `u` arrives and is put on the queue.
Arrive(u, kind) ==
    /\ Len(arrived) < MaxArrivals
    /\ arrived' = Append(arrived, [user |-> u, kind |-> kind])
    /\ update_queue' = Append(update_queue, Len(arrived) + 1)
    /\ UNCHANGED <<running, accessed, bot>>

\* The application takes the first update of the queue and calls its handler:
\* button_click first awaits query.answer(), cashout_command goes straight to
\* the registry.
TakeUpdate ==
    /\ update_queue # <<>>
    /\ CanTake(running)
    /\ LET i == Head(update_queue) IN
           running' = running \cup
               {[id |-> i,
                 pc |-> IF arrived[i].kind = "click" THEN "answer" ELSE "session"]}
    /\ update_queue' = Tail(update_queue)
    /\ UNCHANGED <<arrived, accessed, bot>>

\* `await query.answer()` returns to button_click.
Answered ==
    \E h \in running :
        /\ h.pc = "answer"
        /\ running' = (running \ {h}) \cup {[h EXCEPT !.pc = "session"]}
        /\ UNCHANGED <<arrived, update_queue, accessed, bot>>

\* The handler looks its user up in user_games and acts on the session, up
\* to its next await (the edit or the reply that shows the outcome).
HandleSession ==
    \E h \in running :
        /\ h.pc = "session"
        /\ accessed' = Append(accessed, h.id)
        /\ running' = (running \ {h}) \cup {[h EXCEPT !.pc = "render"]}
        /\ UNCHANGED <<arrived, update_queue, bot>>

\* The edit or the reply returns and the handler with it.
Rendered ==
    \E h \in running :
        /\ h.pc = "render"
        /\ running' = running \ {h}
        /\ UNCHANGED <<arrived, update_queue, accessed, bot>>

DispatchNext ==
    \/ \E u \in Users, kind \in UpdateKinds : Arrive(u, kind)
    \/ TakeUpdate
    \/ Answered
    \/ HandleSession
    \/ Rendered

SpecDispatch == Init /\ [][DispatchNext]_vars

(* ------------------------- one session, played out --------------------- *)

\* A session of every mine count, played from its first reveal to its end.
Player == 1
SessionBets == {1, 2, 100}
SessionMines == MinMines .. MaxMines

Coord(t) == <<t \div GridSize, t % GridSize>>

\* The buttons pressed on a session's board: its first unrevealed gem, a bomb,
\* the tile revealed last, and a button of another grid.
SessionClicks(game) ==
    IF game = NoGame THEN {<<0, 0>>}
    ELSE LET gems == (0 .. NumTiles - 1) \ (game.bombs \cup game.revealed)
             first == {t \in gems : \A s \in gems : t <= s}
             latest == {t \in game.revealed : \A s \in game.revealed : s <= t}
         IN  {Coord(t) : t \in first \cup latest \cup {0}} \cup {<<GridSize, 0>>}

\* The bot after Player's `/mine bet mines` was accepted.
SessionInit ==
    \E bet \in SessionBets, mines \in SessionMines :
        /\ registered = Users
        /\ balance = BalanceAfterStart(InitialBalance, Player, bet, "Started")
        /\ last_daily = [u \in Users |-> FALSE]
        /\ last_weekly = [u \in Users |-> FALSE]
        /\ user_games = [u \in Users |->
                            IF u = Player
                            THEN [MinesGame(bet, mines, BoardBombs(mines, 0))
                                      EXCEPT !.debited = bet]
                            ELSE NoGame]
        /\ shown = [u \in Users |-> NoView]
        /\ last = Idle
        /\ served = 0
        /\ commands = 0
        /\ NoUpdates

\* The handler has returned and the next update is taken; the play is bounded
\* by the board, not by the number of updates.
PlayOn ==
    /\ last # Idle
    /\ last' = Idle
    /\ served' = 0
    /\ UNCHANGED <<registered, balance, last_daily, last_weekly, user_games, shown,
                   commands, dispatch>>

SessionNext ==
    \/ PlayOn
    \/ \E u \in Users :
        \/ \E c \in SessionClicks(user_games[u]) : RevealClick(u, c[1], c[2])
        \/ CashOut(u, "click_cashout", TRUE)
        \/ CashoutCommand(u)

SpecSession == SessionInit /\ [][SessionNext]_vars

(* ------------------- one session, revealed tile by tile ---------------- *)

\* The buttons of tiles not yet revealed that the user presses: the first
\* unrevealed gem and the first unrevealed bomb of the board.
FreshClicks(game) ==
    LET hidden == (0 .. NumTiles - 1) \ game.revealed
        gems == hidden \ game.bombs
        bombs == hidden \cap game.bombs
    IN  {Coord(t) : t \in {g \in gems : \A s \in gems : g <= s}
                          \cup {b \in bombs : \A s \in bombs : b <= s}}

\* The user of a session presses the button of a tile not yet revealed.
KeepRevealing(u) ==
    /\ user_games[u] # NoGame
    /\ \E c \in FreshClicks(user_games[u]) : RevealClick(u, c[1], c[2])

RevealsNext ==
    \/ PlayOn
    \/ \E u \in Users : KeepRevealing(u)

\* The session under a user who keeps revealing tiles not yet revealed and
\* never cashes out; every handler returns.
SpecReveals ==
    /\ SessionInit
    /\ [][RevealsNext]_vars
    /\ WF_vars(PlayOn)
    /\ WF_vars(\E u \in Users : KeepRevealing(u))

(* ------------------------------- the claims ---------------------------- *)

CashOutOps == {"click_cashout", "cashout"}

\* The step handles one game update of user `u`, of a kind in `ops`.
GameStep(u, ops) ==
    /\ served' = served + 1
    /\ last'.user = u
    /\ last'.op \in ops

Active(u) == user_games[u] # NoGame

\* floor(bet * multiplier) of a session, from its fields.
FloorBetTimesMultiplier(game) ==
    (game.bet_amount * game.current_multiplier[1]) \div game.current_multiplier[2]

\* C1: a session is credited at most once: no registered session has been
\* credited, a cash-out that credits removes the session it credits in the
\* same step, and a cash-out request of a user without a session is answered
\* NoActiveGame and changes no balance.
C1_CreditedAtMostOnce ==
    /\ [](\A u \in Users : Active(u) => user_games[u].credits = 0)
    /\ [][\A u \in Users : GameStep(u, CashOutOps) =>
            /\ ~Active(u) => (last'.result = "NoActiveGame" /\ balance' = balance)
            /\ balance' # balance =>
                   (Active(u) /\ last'.result = "Won" /\ user_games'[u] = NoGame)
         ]_vars

\* C1's case: a cash-out request answered NoActiveGame after the user's win of
\* a 23-mine game was credited, no other command having touched the ledger.
C1_Witness ==
    \E u \in Users :
        /\ last.user = u /\ last.op \in CashOutOps /\ last.result = "NoActiveGame"
        /\ commands = 0
        /\ balance[u] > InitialBalance[u]

\* C2: the registry holds a session or none for each user id, and a /mine of a
\* user with a registered session is answered AlreadyActive, leaves the
\* registry as it was and debits nothing.
C2_OneSessionPerUser ==
    /\ [](\A u \in Users : Active(u) => user_games[u].state = "Active")
    /\ [][\A u \in Users : (GameStep(u, {"mine"}) /\ Active(u)) =>
            /\ last'.result = "AlreadyActive"
            /\ user_games' = user_games
            /\ balance' = balance
         ]_vars

\* C2's case: a /mine answered AlreadyActive, the session still registered.
C2_Witness ==
    /\ last.op = "mine" /\ last.result = "AlreadyActive"
    /\ user_games[last.user] # NoGame
    /\ user_games[last.user].gems_revealed > 0

C4_CashOutRule ==
    [][\A u \in Users : (GameStep(u, CashOutOps) /\ Active(u)) =>
          IF user_games[u].gems_revealed < 2
          THEN /\ last'.result = "CashOutTooEarly"
               /\ user_games' = user_games
               /\ balance' = balance
          ELSE /\ last'.result = "Won"
               /\ user_games'[u] = NoGame
      ]_vars

\* C4's case: a cash-out refused with one gem revealed.
C4_Witness ==
    /\ last.op \in CashOutOps /\ last.result = "CashOutTooEarly"
    /\ user_games[last.user] # NoGame
    /\ user_games[last.user].gems_revealed = 1

\* The tile a reveal click names is an unrevealed bomb of the session.
HitsBomb(game, arg) ==
    /\ InGrid(arg[1], arg[2])
    /\ TileAt(arg[1], arg[2]) \in game.bombs \ game.revealed

\* C5: a reveal of an unrevealed bomb tile of a registered session is answered
\* Lost, removes the session and changes no balance.
C5_BombEndsLost ==
    [][\A u \in Users :
          (GameStep(u, {"reveal"}) /\ Active(u) /\ HitsBomb(user_games[u], last'.arg)) =>
              /\ last'.result = "Lost"
              /\ user_games'[u] = NoGame
              /\ balance' = balance
      ]_vars

\* C5's case: a bomb hit after two gems were revealed.
C5_Witness ==
    /\ last.op = "reveal" /\ last.result = "Lost" /\ last.gems >= 2
    /\ user_games[last.user] = NoGame

\* The tile a reveal click names is outside the grid or already revealed.
NotPlayable(game, arg) ==
    \/ ~InGrid(arg[1], arg[2])
    \/ TileAt(arg[1], arg[2]) \in game.revealed

C7_PayoutIsFloorBetTimesMultiplier ==
    /\ [][\A u \in Users : (GameStep(u, CashOutOps) /\ last'.result = "Won") =>
            /\ Active(u)
            /\ balance' = [balance EXCEPT
                              ![u] = @ + FloorBetTimesMultiplier(user_games[u])]
            /\ shown[u] = FloorBetTimesMultiplier(user_games[u])
            /\ user_games'[u] = NoGame
         ]_vars
    /\ [][\A u \in Users : GameStep(u, {"mine"}) =>
            balance' = [balance EXCEPT
                           ![u] = @ - (IF last'.result = "Started"
                                       THEN user_games'[u].bet_amount ELSE 0)]
         ]_vars
    /\ [][\A u \in Users : GameStep(u, {"reveal", "other_click"}) => balance' = balance]_vars

\* C7's case: a 23-mine game of bet 1 won with both gems: 291 credited.
C7_Witness ==
    /\ last.op \in CashOutOps /\ last.result = "Won" /\ last.gems = 2
    /\ commands = 0
    /\ balance[last.user] = InitialBalance[last.user] - 1 + 291

\* C8: a registered session of 24 mines has at most one gem and no credit; a
\* request of its user never answers Won, changes no balance, and removes the
\* session only as Lost; a cash-out request on it is answered CashOutTooEarly.
C8_MaxMinesNeverWon ==
    /\ [](\A u \in Users : (Active(u) /\ user_games[u].mines_count = 24) =>
            /\ user_games[u].gems_revealed <= 1
            /\ user_games[u].credits = 0)
    /\ [][\A u \in Users :
            (GameStep(u, CashOutOps \cup {"reveal", "other_click", "mine"})
                 /\ Active(u) /\ user_games[u].mines_count = 24) =>
                /\ last'.result # "Won"
                /\ balance' = balance
                /\ user_games'[u] = NoGame => last'.result = "Lost"
                /\ last'.op \in CashOutOps =>
                       (last'.result = "CashOutTooEarly" /\ user_games' = user_games)
         ]_vars

\* C8's case: a cash-out refused on a 24-mine session whose only gem is revealed.
C8_Witness ==
    /\ last.op \in CashOutOps /\ last.result = "CashOutTooEarly"
    /\ user_games[last.user] # NoGame
    /\ user_games[last.user].mines_count = 24
    /\ user_games[last.user].gems_revealed = 1

\* C9: every balance is a non-negative integer.
C9_BalanceNonNegative == \A u \in Users : balance[u] \in Nat

\* C9's case: a gift refused to a user whose bet took the last Hiwa.
C9_Witness ==
    /\ last.op = "gift" /\ last.result = "InsufficientBalance"
    /\ balance[last.user] = 0
    /\ user_games[last.user] # NoGame

StartGameRejections ==
    {"AlreadyActive", "Usage", "InvalidConfiguration", "InsufficientBalance"}

\* C10: a /mine that is rejected leaves the registry and every balance as
\* they were.
C10_RejectedStartNoEffect ==
    [][\A u \in Users : (GameStep(u, {"mine"}) /\ last'.result # "Started") =>
          /\ last'.result \in StartGameRejections
          /\ user_games' = user_games
          /\ balance' = balance
      ]_vars

\* C10's case: a /mine rejected for its configuration while a session of
\* another user is registered.
C10_Witness ==
    /\ last.op = "mine" /\ last.result = "InvalidConfiguration"
    /\ \E v \in Users : v # last.user /\ user_games[v] # NoGame

(* ------------------------- claims on the dispatch ---------------------- *)

\* The user an update comes from.
UserOf(i) == arrived[i].user

\* C11: the requests of one user on that user's session take effect one at a
\* time and in their order of arrival: no two handlers of one user are in
\* progress together, the handlers of one user reach the session in the
\* order in which their updates arrived, and when a handler reads and changes
\* the session every earlier update of its user has been handled to the end.
C11_OneAtATimeInArrivalOrder ==
    /\ [](\A g, h \in running : UserOf(g.id) = UserOf(h.id) => g = h)
    /\ [](\A j, k \in 1 .. Len(accessed) :
            (j < k /\ UserOf(accessed[j]) = UserOf(accessed[k])) =>
                accessed[j] < accessed[k])
    /\ [][accessed' # accessed =>
            LET i == accessed'[Len(accessed')] IN
            \A j \in 1 .. (i - 1) : UserOf(j) = UserOf(i) => j \in Finished
         ]_vars

\* C11's case: a handler suspended after it changed its user's session, a
\* later click of the same user waiting in the queue behind it.
C11_Witness ==
    \E h \in running :
        /\ h.pc = "render"
        /\ \E k \in 1 .. Len(update_queue) :
               /\ UserOf(update_queue[k]) = UserOf(h.id)
               /\ arrived[update_queue[k]].kind = "click"

\* The handler waits for the chat transport: for query.answer(), or for the
\* edit or the reply that shows the outcome.
Suspended(h) == h.pc \in {"answer", "render"}

\* C12: a request of one user that is in progress or suspended never keeps a
\* request of another user from being processed: whenever the handlers in
\* progress are suspended and the first update of the queue comes from a
\* user other than theirs, the application can take it.
C12_UsersIndependent ==
    (/\ update_queue # <<>>
     /\ \A h \in running :
            Suspended(h) /\ UserOf(h.id) # UserOf(Head(update_queue)))
        => ENABLED TakeUpdate

(* ----------------------- claims on the session view -------------------- *)

\* C13: every /mine that starts a game (bet debited, session registered)
\* leaves the board of the new session on its user's screen.
C13_StartDeliversBoard ==
    (last.op = "mine" /\ last.result = "Started") =>
        /\ user_games[last.user] # NoGame
        /\ shown[last.user] = PotentialWin(user_games[last.user])

(* ------------------------ claims on the payout model ------------------- *)

RECURSIVE FracLess(_, _)
\* f < g for two fractions of naturals with positive denominators, by their
\* integer parts and then by the inverted remainders: nothing is multiplied.
FracLess(f, g) ==
    IF f[1] \div f[2] # g[1] \div g[2] THEN f[1] \div f[2] < g[1] \div g[2]
    ELSE IF g[1] % g[2] = 0 THEN FALSE
    ELSE IF f[1] % f[2] = 0 THEN TRUE
    ELSE FracLess(<<g[2], g[1] % g[2]>>, <<f[2], f[1] % f[2]>>)

\* The gems a board of `mines` bombs holds.
GemsOf(mines) == NumTiles - mines

\* C14: multiplier(mines, k) is strictly increasing in k for a fixed mine
\* count (k from 0 to 25 - mines) and strictly increasing in the mine count
\* for a fixed k > 0 for which both values are defined; at the mine count
\* and the gems of every session that is played.
C14_MultiplierStrictlyIncreasing ==
    \A u \in Users : Active(u) =>
        LET m == user_games[u].mines_count
            k == user_games[u].gems_revealed
        IN  /\ k < GemsOf(m) =>
                   FracLess(multiplierAfter(m, k), multiplierAfter(m, k + 1))
            /\ \A n \in (m + 1) .. MaxMines :
                   (k > 0 /\ k <= GemsOf(n)) =>
                       FracLess(multiplierAfter(m, k), multiplierAfter(n, k))

\* C14's case: 12 gems revealed on a board of 12 mines, a number of gems the
\* boards of 13 mines hold as well.
C14_Witness ==
    \E u \in Users :
        /\ Active(u)
        /\ user_games[u].mines_count = 12
        /\ user_games[u].gems_revealed = 12

(* ------------------------ claims on the session's life ----------------- *)

GameOps == CashOutOps \cup {"mine", "reveal", "other_click"}

\* A session as MinesGame builds it: nothing revealed, nothing credited.
Fresh(game) ==
    /\ game.state = "Active"
    /\ game.revealed = {}
    /\ game.gems_revealed = 0
    /\ game.credits = 0

\* C15: every registered session is Active, with no bomb revealed and no win
\* credited; a request answered Won or Lost removes the session it ends; a
\* reveal, a cash-out or a click of a user whose session is gone is answered
\* NoActiveGame and changes neither the registry nor a balance; and a session
\* enters the registry only fresh, from a /mine that is answered Started.
C15_RegisteredSessionsAreActive ==
    /\ [](\A u \in Users : Active(u) =>
            /\ user_games[u].state = "Active"
            /\ user_games[u].revealed \cap user_games[u].bombs = {}
            /\ user_games[u].credits = 0)
    /\ [][\A u \in Users : GameStep(u, GameOps) =>
            /\ last'.result \in {"Won", "Lost"} =>
                   (Active(u) /\ user_games'[u] = NoGame)
            /\ (~Active(u) /\ last'.op # "mine") =>
                   /\ last'.result = "NoActiveGame"
                   /\ user_games' = user_games
                   /\ balance' = balance
            /\ (~Active(u) /\ user_games'[u] # NoGame) =>
                   (last'.result = "Started" /\ Fresh(user_games'[u]))
         ]_vars

\* C15's case: a reveal click answered NoActiveGame after the user's session
\* was lost on a bomb.
C15_Witness ==
    /\ last.op = "reveal" /\ last.result = "NoActiveGame"
    /\ commands = 0
    /\ user_games[last.user] = NoGame
    /\ balance[last.user] = InitialBalance[last.user] - 1

\* C16: the gems revealed of every registered session are the revealed tiles
\* of its board that are no bombs, and at most 25 - mines; the board holds
\* exactly `mines` bombs.
C16_GemsAreRevealedSafeTiles ==
    \A u \in Users : Active(u) =>
        /\ user_games[u].gems_revealed =
               Cardinality(user_games[u].revealed \ user_games[u].bombs)
        /\ user_games[u].gems_revealed <= GemsOf(user_games[u].mines_count)
        /\ Cardinality(user_games[u].bombs) = user_games[u].mines_count
        /\ user_games[u].bombs \subseteq 0 .. (NumTiles - 1)

\* C16's case: a second click on the last gem of a 3-mine board, all of its
\* 22 gems revealed.
C16_Witness ==
    /\ last.op = "reveal" /\ last.result = "InvalidMove"
    /\ InGrid(last.arg[1], last.arg[2])
    /\ user_games[last.user] # NoGame
    /\ user_games[last.user].mines_count = MinMines
    /\ user_games[last.user].gems_revealed = GemsOf(MinMines)

\* C17: the multiplier of every registered session is
\* multiplierAfter(mines, gems revealed); it never decreases while the
\* session is registered; a reveal answered InvalidMove and a cash-out
\* answered CashOutTooEarly leave the session as it was; and the reveal of a
\* bomb leaves the session's multiplier at its last value.
C17_MultiplierFollowsGems ==
    /\ [](\A u \in Users : Active(u) =>
            /\ user_games[u].current_multiplier =
                   multiplierAfter(user_games[u].mines_count,
                                   user_games[u].gems_revealed)
            /\ \A t \in user_games[u].bombs :
                   reveal_tile(user_games[u], Coord(t)[1], Coord(t)[2]).current_multiplier
                       = user_games[u].current_multiplier)
    /\ [][\A u \in Users : (Active(u) /\ user_games'[u] # NoGame) =>
            ~FracLess(user_games'[u].current_multiplier,
                      user_games[u].current_multiplier)
         ]_vars
    /\ [][\A u \in Users :
            (GameStep(u, CashOutOps \cup {"reveal"}) /\ Active(u)
                 /\ last'.result \in {"InvalidMove", "CashOutTooEarly"}) =>
                user_games'[u] = user_games[u]
         ]_vars

\* C17's case: a cash-out refused on a 5-mine session with one gem, whose
\* multiplier is 97/80.
C17_Witness ==
    /\ last.op \in CashOutOps /\ last.result = "CashOutTooEarly"
    /\ user_games[last.user] # NoGame
    /\ user_games[last.user].mines_count = 5
    /\ user_games[last.user].gems_revealed = 1
    /\ user_games[last.user].current_multiplier = <<97, 80>>

One == <<1, 1>>

\* f >= g for two fractions.
FracAtLeast(f, g) == ~FracLess(f, g)

RequestOf(u) == last = Idle /\ last' # Idle /\ last'.user = u

\* C19 as claimed: no request of a user changes or removes the session of
\* another user.
C19_OnlyOwnerChangesSession ==
    [][\A u, v \in Users : (RequestOf(u) /\ v # u) =>
          user_games'[v] = user_games[v]
      ]_vars

\* C19: no request of a user changes or removes the session of another user,
\* but the /resetdata of an administrator, which empties the registry.
C19_OnlyOwnerOrResetChangesSession ==
    [][\A u, v \in Users : (RequestOf(u) /\ v # u) =>
          IF last'.op = "resetdata" /\ last'.result = "Reset"
          THEN u \in ADMINS /\ user_games'[v] = NoGame
          ELSE user_games'[v] = user_games[v]
      ]_vars

\* C19's case: an administrator's /setbalance carried out while another user
\* has a session with a gem revealed.
C19_Witness ==
    /\ last.op = "setbalance" /\ last.result = "Set"
    /\ \E v \in Users :
           /\ v # last.user
           /\ user_games[v] # NoGame
           /\ user_games[v].gems_revealed >= 1

(* ----------------------- claims on the amount won ---------------------- *)

\* C20: a cash-out answered Won credits its user at least the bet of the
\* session, so the user's balance is no lower than before the game was
\* started; and floor(bet * multiplier) is at least the bet for every
\* registered session with 2 gems or more.
C20_WinAtLeastBet ==
    /\ [](\A u \in Users : (Active(u) /\ user_games[u].gems_revealed >= MinCashoutGems) =>
            Payout(user_games[u].bet_amount,
                   multiplierAfter(user_games[u].mines_count,
                                   user_games[u].gems_revealed))
                >= user_games[u].bet_amount)
    /\ [][\A u \in Users : (GameStep(u, CashOutOps) /\ last'.result = "Won") =>
            /\ Active(u)
            /\ balance'[u] - balance[u] >= user_games[u].bet_amount
            /\ balance'[u] >= InitialBalance[u]
         ]_vars

\* C20's case: a 3-mine game of bet 100 cashed out at 2 gems, the smallest
\* multiplier a cash-out can have: 125 credited.
C20_Witness ==
    /\ last.op \in CashOutOps /\ last.result = "Won" /\ last.gems = 2
    /\ balance[last.user] = InitialBalance[last.user] - 100 + 125

(* ---------------------- claims on the session's end -------------------- *)

\* The tile a reveal click names is a tile of the grid not yet revealed.
Playable(game, arg) ==
    /\ InGrid(arg[1], arg[2])
    /\ TileAt(arg[1], arg[2]) \notin game.revealed

\* C21: a registered session has at most 25 - mines tiles revealed; a reveal
\* of a tile not yet revealed is accepted, as one more revealed tile of the
\* registered session or as Lost with the session removed, and as Lost once
\* 25 - mines tiles are revealed; and under a user who keeps revealing tiles
\* not yet revealed and never cashes out, every session is in the end
\* answered Lost and removed from the registry.
C21_RevealsEndInLost ==
    /\ [](\A u \in Users : Active(u) =>
            Cardinality(user_games[u].revealed) <= GemsOf(user_games[u].mines_count))
    /\ [][\A u \in Users :
            (GameStep(u, {"reveal"}) /\ Active(u) /\ Playable(user_games[u], last'.arg)) =>
                /\ last'.result \in {"Safe", "Lost"}
                /\ last'.result = "Safe" =>
                       /\ user_games'[u] # NoGame
                       /\ Cardinality(user_games'[u].revealed)
                              = Cardinality(user_games[u].revealed) + 1
                /\ last'.result = "Lost" => user_games'[u] = NoGame
                /\ Cardinality(user_games[u].revealed)
                       = GemsOf(user_games[u].mines_count) => last'.result = "Lost"
         ]_vars
    /\ \A u \in Users :
           Active(u) ~> (user_games[u] = NoGame /\ last.user = u /\ last.result = "Lost")

\* C21's case: a 3-mine session lost on its 23rd accepted reveal, after all
\* of its 22 gems.
C21_Witness ==
    /\ last.op = "reveal" /\ last.result = "Lost"
    /\ last.gems = GemsOf(MinMines)
    /\ user_games[last.user] = NoGame

====
